---------------------------- MODULE Spec2Model ----------------------------
(***************************************************************************)
(* Model of the argument type metadata of dlhub_sdk:                       *)
(*   - dlhub_sdk/utils/types.py       compose_argument_block,              *)
(*                                    simplify_numpy_dtype                 *)
(*   - dlhub_sdk/utils/validation.py  validate and its helpers             *)
(*                                                                         *)
(* Python values are records tagged with the name of their Python type     *)
(* (field t).  A descriptor (a dict of the servable metadata) is a record  *)
(* whose fields are the keys of the dict.  The outcome of a call is a      *)
(* record that says which exception class escaped (exc = "None" for a      *)
(* normal return), which statement raised it (site), the parts of the      *)
(* message, and the content of the shared path list when the call ended.   *)
(***************************************************************************)
EXTENDS Integers, Sequences, FiniteSets, TLC

VARIABLES phase, call, composed, metadata, run_input, result, repeat, client, search_results, latest, future, task, thread

vars == <<phase, call, composed, metadata, run_input, result, repeat, client, search_results, latest, future, task, thread>>

-----------------------------------------------------------------------------
(* Bounds of the model *)

\* longest list, tuple and dict value that is enumerated
MaxLen == 2
\* largest rank for which the arrays and shapes of every size are enumerated
MaxRank == 2
\* the longest list of search results
MaxResults == 3
\* the most calls of running() and stop() that the caller's thread makes
MaxCalls == 2

-----------------------------------------------------------------------------
(* Python values *)

PyNone == [t |-> "NoneType"]
PyBool(b) == [t |-> "bool", b |-> b]
PyInt(n) == [t |-> "int", n |-> n]
PyFloat(x) == [t |-> "float", x |-> x]
PyComplex(x) == [t |-> "complex", x |-> x]
PyStr(s) == [t |-> "str", s |-> s]
PyPath(p) == [t |-> "Path", p |-> p]
PyFile(name) == [t |-> "TextIOWrapper", name |-> name]
PyObject(id) == [t |-> "Composition", id |-> id]
PyList(items) == [t |-> "list", items |-> items]
PyTuple(items) == [t |-> "tuple", items |-> items]
\* a dict keeps its pairs in insertion order, which is its iteration order
PyDict(pairs) == [t |-> "dict", pairs |-> pairs]
\* an ndarray: its shape, the kind character of its dtype, and (for an
\* object array) its elements in flat order
NdArray(shape, kind, elems) == [t |-> "ndarray", shape |-> shape, kind |-> kind, elems |-> elems]

\* issubclass(a, b) for the classes of the model
IsSubclass(a, b) ==
    \/ a = b
    \/ b = "object"
    \/ a = "bool" /\ b = "int"
    \/ a = "TextIOWrapper" /\ b = "IOBase"

DictKeys(dct) == {dct.pairs[i].k : i \in 1..Len(dct.pairs)}
DictGet(dct, key) == dct.pairs[CHOOSE i \in 1..Len(dct.pairs) : dct.pairs[i].k = key].v

-----------------------------------------------------------------------------
(* Outcomes *)

Returned(path, warned) ==
    [exc |-> "None", site |-> "return", expected |-> <<>>, given |-> "",
     loc |-> <<>>, key |-> "", lens |-> <<>>, path |-> path, warned |-> warned]

Raised(exc, site, expected, given, loc, key, lens, path, warned) ==
    [exc |-> exc, site |-> site, expected |-> expected, given |-> given,
     loc |-> loc, key |-> key, lens |-> lens, path |-> path, warned |-> warned]

\* an exception of the interpreter or of a builtin: it carries no message
\* written by the validator
BuiltinRaised(exc, site, path, warned) ==
    Raised(exc, site, <<>>, "", <<>>, "", <<>>, path, warned)

-----------------------------------------------------------------------------
(* _type_name_to_type *)

\* the conversion table of _type_name_to_type: a value is one class or a
\* tuple of classes
type_table ==
    [boolean |-> [py |-> "type", names |-> <<"bool">>],
     integer |-> [py |-> "type", names |-> <<"int">>],
     float |-> [py |-> "tuple", names |-> <<"int", "float">>],
     number |-> [py |-> "tuple", names |-> <<"int", "float", "complex">>],
     string |-> [py |-> "type", names |-> <<"str">>],
     file |-> [py |-> "tuple", names |-> <<"IOBase", "Path", "str">>],
     ndarray |-> [py |-> "type", names |-> <<"ndarray">>],
     datetime |-> [py |-> "type", names |-> <<"datetime">>],
     timedelta |-> [py |-> "type", names |-> <<"timedelta">>]]

\* names of __builtins__ that are classes
BuiltinClasses == {"bool", "int", "float", "complex", "str", "list", "tuple", "dict", "object"}
\* names of __builtins__ that are functions or constants
BuiltinOthers == {"len", "None", "True"}

\* type_table.get(name) or __builtins__[name]; py = "KeyError" when the
\* name is in neither table (the ValueError of line 39)
_type_name_to_type(name) ==
    IF name \in DOMAIN type_table THEN type_table[name]
    ELSE IF name \in BuiltinClasses THEN [py |-> "type", names |-> <<name>>]
    ELSE IF name \in BuiltinOthers THEN [py |-> "other", names |-> <<name>>]
    ELSE [py |-> "KeyError", names |-> <<>>]

IsType(obj, name) == obj.py = "type" /\ obj.names = <<name>>

-----------------------------------------------------------------------------
(* _generate_err *)

\* the frames of path in the order of the list
PathKinds(path) == [j \in 1..Len(path) |-> path[j].c]
\* jump[1] of every frame: the index or key shown in the message
PathLoc(path) == [j \in 1..Len(path) |-> [i |-> path[j].i, k |-> path[j].k]]

\* _generate_err(err_type, path, expected, given) of a type error, where
\* expected is a resolved type and given the name of a class or "None".
\* expected.__name__ raises AttributeError when expected is a tuple.
_generate_err(err_type, path, expected, given, warned) ==
    IF expected.py = "tuple"
    THEN BuiltinRaised("AttributeError", "expected.__name__", path, warned)
    ELSE Raised(err_type, "TypeMismatch", PathKinds(path) \o <<expected.names[1]>>,
                given, PathLoc(path), "", <<>>, path, warned)

\* _generate_err(err_type, path, msg=...): the message is msg with {loc}
\* replaced by the location
_generate_err_msg(err_type, site, path, key, lens, warned) ==
    Raised(err_type, site, <<>>, "", PathLoc(path), key, lens, path, warned)

-----------------------------------------------------------------------------
(* simplify_numpy_dtype *)

\* the name of the kind of an array's dtype, from dtype.kind
simplify_numpy_dtype(kind) ==
    IF kind = "b" THEN "boolean"
    ELSE IF kind = "i" \/ kind = "u" THEN "integer"
    ELSE IF kind = "f" THEN "float"
    ELSE IF kind = "c" THEN "complex"
    ELSE IF kind = "m" THEN "timedelta"
    ELSE IF kind = "M" THEN "datetime"
    ELSE IF kind = "S" \/ kind = "U" THEN "string"
    ELSE "python object"

-----------------------------------------------------------------------------
(* _validate_type *)

\* isinstance(obj, in_type) for a value obj and a class or tuple of classes
IsInstance(obj, in_type) ==
    \E j \in 1..Len(in_type.names) : IsSubclass(obj.t, in_type.names[j])

\* no boolean is told from an integer
BoolAsInt_silent(cls, in_type) == FALSE

\* check_func(obj, bool) and in_type is int: the condition of the
\* ValidationWarning, for an object of class cls
BoolAsInt(cls, in_type) == IsSubclass(cls, "bool") /\ IsType(in_type, "int")

\* _validate_type(obj, in_type, path, class_=class_).  With class_ the
\* object is itself a resolved type (the result of _type_name_to_type) and
\* the check is issubclass.
_validate_type(obj, in_type, path, class_, warned) ==
    IF class_
    THEN IF obj.py # "type"
         THEN BuiltinRaised("TypeError", "issubclass_arg1", path, warned)
         ELSE IF in_type.py = "other"
         THEN BuiltinRaised("TypeError", "issubclass_arg2", path, warned)
         ELSE IF ~ \E j \in 1..Len(in_type.names) : IsSubclass(obj.names[1], in_type.names[j])
         THEN _generate_err("TypeError", path, in_type, obj.names[1], warned)
         ELSE Returned(path, warned \/ BoolAsInt(obj.names[1], in_type))
    ELSE IF in_type.py = "other"
         THEN BuiltinRaised("TypeError", "isinstance_arg2", path, warned)
         ELSE IF ~ IsInstance(obj, in_type)
         THEN _generate_err("TypeError", path, in_type,
                            IF obj.t = "NoneType" THEN "None" ELSE obj.t, warned)
         ELSE Returned(path, warned \/ BoolAsInt(obj.t, in_type))

-----------------------------------------------------------------------------
(* the shape of an ndarray descriptor *)

\* the characters of the strings the model iterates over
StrChars(s) ==
    IF s = "Any" THEN <<"A", "n", "y">>
    ELSE IF s = "None" THEN <<"N", "o", "n", "e">>
    ELSE <<s>>

\* the sequence "for x in shape" runs through: the items of a list, the
\* characters of a string
ShapeItems(shape) ==
    IF shape.t = "str"
    THEN [j \in 1..Len(StrChars(shape.s)) |-> PyStr(StrChars(shape.s)[j])]
    ELSE shape.items

DigitStrs == <<"0", "1", "2", "3", "4", "5", "6", "7", "8", "9">>

\* int(x): exc = "None" and the number n, or the exception int raises
IntOf(x) ==
    IF x.t = "int" THEN [exc |-> "None", n |-> x.n]
    ELSE IF x.t = "bool" THEN [exc |-> "None", n |-> IF x.b THEN 1 ELSE 0]
    ELSE IF x.t = "str"
    THEN IF \E j \in 1..Len(DigitStrs) : DigitStrs[j] = x.s
         THEN [exc |-> "None", n |-> (CHOOSE j \in 1..Len(DigitStrs) : DigitStrs[j] = x.s) - 1]
         ELSE [exc |-> "ValueError", n |-> 0]
    ELSE [exc |-> "TypeError", n |-> 0]

\* one entry of the converted shape: int(x) if x != "None" else x
ShapeEntry(x) ==
    IF x.t = "str" /\ x.s = "None"
    THEN [exc |-> "None", wild |-> TRUE, n |-> 0]
    ELSE [exc |-> IntOf(x).exc, wild |-> FALSE, n |-> IntOf(x).n]

\* tuple(int(x) if x != "None" else x for x in shape)
ConvertShape(shape) == [j \in 1..Len(ShapeItems(shape)) |-> ShapeEntry(ShapeItems(shape)[j])]

\* the comparison of the shapes with the wildcard looked for in arr.shape:
\* t[0] == t[1] or t[0] == "None"
ShapeMatches_no_wildcard(arrShape, shape) ==
    \A j \in 1..Len(arrShape) : ~ shape[j].wild /\ arrShape[j] = shape[j].n

\* all(map(lambda t: t[0] == t[1] or t[1] == "None", zip(arr.shape, shape)))
ShapeMatches(arrShape, shape) ==
    \A j \in 1..Len(arrShape) : shape[j].wild \/ arrShape[j] = shape[j].n

-----------------------------------------------------------------------------
(* validate *)

Push(path, c) == Append(path, [c |-> c, i |-> -1, k |-> ""])
\* the frame is left on the path
Pop_forgotten(path) == path
\* path.pop()
Pop(path) == SubSeq(path, 1, Len(path) - 1)
\* path[-1][1] = i
SetIndex(path, i) == [path EXCEPT ![Len(path)] = [c |-> path[Len(path)].c, i |-> i, k |-> ""]]
\* path[-1][1] = key
SetKey(path, key) == [path EXCEPT ![Len(path)] = [c |-> path[Len(path)].c, i |-> -1, k |-> key]]

\* a descriptor is a dict of the metadata; an entry that is a Python value
\* of another class (an element type given by its bare name) has the field t
IsDictEntry(entry) == "t" \notin DOMAIN entry
Has(entry, field) == field \in DOMAIN entry

RECURSIVE validate(_, _, _, _)
RECURSIVE ListLoop(_, _, _, _, _)
RECURSIVE TupleLoop(_, _, _, _, _)
RECURSIVE UnexpectedLoop(_, _, _, _, _)
RECURSIVE PropsLoop(_, _, _, _, _)

\* the loop of _validate_list from index i (counted from 0) on
ListLoop(li, db_entry, path, i, warned) ==
    IF i >= Len(li.items) THEN Returned(path, warned)
    ELSE IF ~ Has(db_entry, "item_type")
    THEN BuiltinRaised("KeyError", "db_entry[item_type]", SetIndex(path, i), warned)
    ELSE LET r == validate(li.items[i + 1], db_entry.item_type, SetIndex(path, i), warned)
         IN IF r.exc # "None" THEN r
            ELSE ListLoop(li, db_entry, r.path, i + 1, r.warned)

_validate_list(li, db_entry, path, warned) ==
    LET r == ListLoop(li, db_entry, Push(path, "list"), 0, warned)
    IN IF r.exc # "None" THEN r ELSE Returned(Pop(r.path), r.warned)

\* the loop of _validate_tuple over zip(tup, db_entries) from index i on
TupleLoop(tup, db_entries, path, i, warned) ==
    IF i >= Len(tup.items) \/ i >= Len(db_entries) THEN Returned(path, warned)
    ELSE LET r == validate(tup.items[i + 1], db_entries[i + 1], SetIndex(path, i), warned)
         IN IF r.exc # "None" THEN r
            ELSE TupleLoop(tup, db_entries, r.path, i + 1, r.warned)

\* _validate_tuple without the comparison of the lengths: zip stops at the
\* shorter of the two
_validate_tuple_zip_only(tup, db_entries, path, warned) ==
    LET r == TupleLoop(tup, db_entries, Push(path, "tuple"), 0, warned)
    IN IF r.exc # "None" THEN r ELSE Returned(Pop(r.path), r.warned)

_validate_tuple(tup, db_entries, path, warned) ==
    IF Len(tup.items) # Len(db_entries)
    THEN _generate_err_msg("ValueError", "ArityMismatch", path, "",
                           <<Len(db_entries), Len(tup.items)>>, warned)
    ELSE LET r == TupleLoop(tup, db_entries, Push(path, "tuple"), 0, warned)
         IN IF r.exc # "None" THEN r ELSE Returned(Pop(r.path), r.warned)

\* the last element is the one looked at
item_last(arr, j) == arr.elems[Len(arr.elems)]

\* arr.item(j): the element at flat index j of an object array
item(arr, j) == arr.elems[j + 1]

_validate_ndarray(arr, shape, db_entry, path, warned) ==
    LET conv == ConvertShape(shape)
        bad == {j \in 1..Len(conv) : conv[j].exc # "None"}
    IN IF bad # {}
       THEN BuiltinRaised(conv[CHOOSE j \in bad : \A h \in bad : j <= h].exc, "int(x)", path, warned)
       ELSE IF Len(arr.shape) # Len(conv)
       THEN _generate_err_msg("ValueError", "ShapeMismatch", path, "", arr.shape, warned)
       ELSE IF ~ ShapeMatches(arr.shape, conv)
       THEN _generate_err_msg("ValueError", "ShapeMismatch", path, "", arr.shape, warned)
       ELSE IF ~ Has(db_entry, "item_type") THEN Returned(path, warned)
       ELSE IF IsDictEntry(db_entry.item_type) /\ DOMAIN db_entry.item_type = {}
       THEN Returned(path, warned)
       ELSE IF Len(arr.shape) = 0
       THEN BuiltinRaised("TypeError", "len(arr)", path, warned)
       ELSE IF arr.shape[1] = 0 THEN Returned(path, warned)
       ELSE IF simplify_numpy_dtype(arr.kind) = "python object"
       THEN validate(item(arr, 0), db_entry.item_type, path, warned)
       ELSE IF ~ IsDictEntry(db_entry.item_type)
       THEN BuiltinRaised("TypeError", "entry[type]", path, warned)
       ELSE IF ~ Has(db_entry.item_type, "type")
       THEN BuiltinRaised("KeyError", "entry[type]", path, warned)
       ELSE IF _type_name_to_type(db_entry.item_type.type).py = "KeyError"
       THEN Raised("ValueError", "UnknownKind", <<>>, "", <<>>, db_entry.item_type.type, <<>>,
                   path, warned)
       ELSE _validate_type(_type_name_to_type(simplify_numpy_dtype(arr.kind)),
                           _type_name_to_type(db_entry.item_type.type), path, TRUE, warned)

\* the first loop of _validate_dict: the keys of dct from position i on
UnexpectedLoop(dct, props, path, i, warned) ==
    IF i > Len(dct.pairs) THEN Returned(path, warned)
    ELSE IF ~ \E j \in 1..Len(props) : props[j].k = dct.pairs[i].k
    THEN _generate_err_msg("ValueError", "UnexpectedKey", SetKey(path, dct.pairs[i].k),
                           dct.pairs[i].k, <<>>, warned)
    ELSE UnexpectedLoop(dct, props, SetKey(path, dct.pairs[i].k), i + 1, warned)

\* the second loop of _validate_dict: the keys of props from position i on
PropsLoop(dct, props, path, i, warned) ==
    IF i > Len(props) THEN Returned(path, warned)
    ELSE IF props[i].k \notin DictKeys(dct)
    THEN _generate_err_msg("ValueError", "MissingKey", SetKey(path, props[i].k),
                           props[i].k, <<>>, warned)
    ELSE LET r == validate(DictGet(dct, props[i].k), props[i].d, SetKey(path, props[i].k), warned)
         IN IF r.exc # "None" THEN r
            ELSE PropsLoop(dct, props, r.path, i + 1, r.warned)

\* the two loops run whatever props holds
_validate_dict_no_escape(dct, props, path, warned) ==
    LET u == UnexpectedLoop(dct, props, Push(path, "dict"), 1, warned)
    IN IF u.exc # "None" THEN u
       ELSE LET r == PropsLoop(dct, props, u.path, 1, u.warned)
            IN IF r.exc # "None" THEN r ELSE Returned(Pop(r.path), r.warned)

\* props is the sequence of the pairs [k, d] of the properties dict in
\* iteration order
_validate_dict(dct, props, path, warned) ==
    IF Len(props) = 0 THEN Returned(path, warned)
    ELSE LET u == UnexpectedLoop(dct, props, Push(path, "dict"), 1, warned)
         IN IF u.exc # "None" THEN u
            ELSE LET r == PropsLoop(dct, props, u.path, 1, u.warned)
                 IN IF r.exc # "None" THEN r ELSE Returned(Pop(r.path), r.warned)

\* validate(inputs, db_entry, path); warned says whether a
\* ValidationWarning has been issued so far
validate(inputs, db_entry, path, warned) ==
    IF ~ IsDictEntry(db_entry)
    THEN BuiltinRaised("TypeError", "db_entry[type]", path, warned)
    ELSE IF ~ Has(db_entry, "type")
    THEN BuiltinRaised("KeyError", "db_entry[type]", path, warned)
    ELSE LET expected_input_type == _type_name_to_type(db_entry.type)
         IN IF expected_input_type.py = "KeyError"
            THEN Raised("ValueError", "UnknownKind", <<>>, "", <<>>, db_entry.type, <<>>,
                        path, warned)
            ELSE LET r == _validate_type(inputs, expected_input_type, path, FALSE, warned)
                 IN IF r.exc # "None" THEN r
                    ELSE IF IsType(expected_input_type, "list")
                    THEN _validate_list(inputs, db_entry, path, r.warned)
                    ELSE IF IsType(expected_input_type, "tuple")
                    THEN IF ~ Has(db_entry, "element_types")
                         THEN BuiltinRaised("KeyError", "db_entry[element_types]", path, r.warned)
                         ELSE _validate_tuple(inputs, db_entry.element_types, path, r.warned)
                    ELSE IF IsType(expected_input_type, "ndarray")
                    THEN IF ~ Has(db_entry, "shape")
                         THEN BuiltinRaised("KeyError", "db_entry[shape]", path, r.warned)
                         ELSE _validate_ndarray(inputs, db_entry.shape, db_entry, path, r.warned)
                    ELSE IF IsType(expected_input_type, "dict")
                    THEN IF ~ Has(db_entry, "properties")
                         THEN BuiltinRaised("KeyError", "db_entry[properties]", path, r.warned)
                         ELSE _validate_dict(inputs, db_entry.properties, path, r.warned)
                    ELSE r

-----------------------------------------------------------------------------
(* compose_argument_block *)

IsNone(x) == "t" \in DOMAIN x /\ x.t = "NoneType"

\* a merge that keeps the entries the block already has
update_setdefault(args, kwargs) == args @@ kwargs

\* args.update(**kwargs): the keyword's value replaces the entry of the
\* same name
update(args, kwargs) == kwargs @@ args

\* compose_argument_block(data_type, description, shape, item_type,
\* python_type, properties, element_types, **kwargs).  An argument that is
\* not given is PyNone; properties is given as [props |-> pairs]; kwargs is
\* a record of the extra keyword arguments.  The result is the exception
\* class that escapes ("None" if none) and the block args.
compose_argument_block(data_type, description, shape, item_type, python_type, properties, element_types, kwargs) ==
    LET args0 == [type |-> data_type, description |-> description]
        args1 == IF data_type = "ndarray" /\ ~ IsNone(shape)
                 THEN ("shape" :> PyList(ShapeItems(shape))) @@ args0
                 ELSE args0
        args2 == IF data_type = "python object" /\ ~ IsNone(python_type)
                 THEN ("python_type" :> python_type.s) @@ args1
                 ELSE args1
        args3 == IF data_type = "dict" /\ ~ IsNone(properties)
                 THEN ("properties" :> properties.props) @@ args2
                 ELSE args2
        args4 == IF IsNone(item_type) THEN args3
                 ELSE IF IsDictEntry(item_type) THEN ("item_type" :> item_type) @@ args3
                 ELSE IF item_type.t = "str" THEN ("item_type" :> [type |-> item_type.s]) @@ args3
                 ELSE args3
        args5 == IF IsNone(element_types) THEN args4
                 ELSE ("element_types" :> element_types.items) @@ args4
    IN IF data_type = "ndarray" /\ IsNone(shape)
       THEN [exc |-> "ValueError", site |-> "Shape must be specified for ndarrays", args |-> args0]
       ELSE IF data_type = "list" /\ IsNone(item_type)
       THEN [exc |-> "ValueError", site |-> "Item type must be defined for lists", args |-> args0]
       ELSE IF data_type = "tuple" /\ IsNone(element_types)
       THEN [exc |-> "ValueError", site |-> "Element type must be defined for tuples", args |-> args0]
       ELSE IF data_type = "python object" /\ IsNone(python_type)
       THEN [exc |-> "ValueError", site |-> "Python type must be defined", args |-> args0]
       ELSE IF data_type = "dict" /\ IsNone(properties)
       THEN [exc |-> "ValueError", site |-> "Properties must be defined for dict type", args |-> args0]
       ELSE [exc |-> "None", site |-> "return", args |-> update(args5, kwargs)]

-----------------------------------------------------------------------------
(* The values a caller passes to run *)

SeqsUpTo(S, n) == UNION {[1..k -> S] : k \in 0..n}

\* the pairs of a dict have distinct keys
DistinctKeys(pairs) == \A i, j \in 1..Len(pairs) : i # j => pairs[i].k # pairs[j].k

Scalars ==
    {PyNone, PyBool(TRUE), PyInt(1), PyFloat("1.23"), PyComplex("1j"), PyStr("hello"),
     PyPath("data.csv"), PyFile("data.csv"), PyObject("Fe2O3")}

ListElems == {PyInt(1), PyStr("hello"), PyBool(TRUE)}
TupleElems == {PyInt(1), PyStr("hello")}
ValueKeys == {"a", "b", "d"}

ListValues == {PyList(s) : s \in SeqsUpTo(ListElems, MaxLen)}
TupleValues == {PyTuple(s) : s \in SeqsUpTo(TupleElems, MaxLen)}
DictValues ==
    {PyDict(s) : s \in {q \in SeqsUpTo([k : ValueKeys, v : TupleElems], MaxLen) : DistinctKeys(q)}}

\* the sizes of an axis, and the arrays of rank up to MaxRank over them
AxisSizes == {0, 1, 2, 3, 5}
DtypeKinds == {"b", "i", "f", "c", "U"}
ArrayShapes == SeqsUpTo(AxisSizes, MaxRank) \cup {<<1, 1, 2>>, <<5, 2, 2>>}
ArrayValues ==
    {NdArray(sh, "i", <<>>) : sh \in ArrayShapes}
    \cup {NdArray(sh, kind, <<>>) : sh \in {<<3>>, <<0>>, <<2, 2>>}, kind \in DtypeKinds}
    \cup {NdArray(<<1>>, "O", <<e>>) : e \in {PyInt(1), PyStr("hello"), PyDict(<<[k |-> "a", v |-> PyInt(1)]>>)}}
    \cup {NdArray(<<2>>, "O", <<PyInt(1), e>>) : e \in {PyInt(1), PyStr("hello")}}

NestedValues ==
    {PyList(<<PyDict(<<[k |-> "a", v |-> e]>>)>>) : e \in {PyInt(1), PyStr("hello"), PyList(<<PyInt(1), PyFloat("4.")>>)}}
    \cup {PyDict(<<[k |-> "a", v |-> PyList(<<PyInt(1), e>>)]>>) : e \in {PyInt(1), PyFloat("4.")}}
    \cup {PyTuple(<<PyList(<<e>>), PyInt(1)>>) : e \in TupleElems}
    \cup {PyList(<<PyList(<<PyInt(1), e>>)>>) : e \in TupleElems}
    \cup {PyList(<<PyDict(<<[k |-> "a", v |-> PyInt(1)]>>), PyDict(<<[k |-> "a", v |-> PyInt(1)]>>),
                   PyDict(<<[k |-> "a", v |-> e]>>)>>) : e \in TupleElems}
    \cup {PyTuple(<<PyBool(TRUE), PyStr("hello")>>), PyDict(<<[k |-> "a", v |-> PyBool(TRUE)]>>)}

Values == Scalars \cup ListValues \cup TupleValues \cup DictValues \cup ArrayValues \cup NestedValues

-----------------------------------------------------------------------------
(* The descriptors a servable publishes *)

ScalarKinds == {"boolean", "integer", "float", "number", "string", "file", "python object"}
ContainerKinds == {"ndarray", "list", "tuple", "dict"}
Kinds == ScalarKinds \cup ContainerKinds
\* type names outside the kinds of the metadata
OtherNames == {"nonsense", "int", "object", "complex", "len", "None"}

ScalarEntry(kind) ==
    IF kind = "python object"
    THEN [type |-> kind, python_type |-> "pymatgen.core.Composition"]
    ELSE [type |-> kind]

ScalarEntries == {ScalarEntry(kind) : kind \in ScalarKinds}
OtherEntries == {[type |-> name] : name \in OtherNames}

ItemEntries == {ScalarEntry(kind) : kind \in {"integer", "string", "number", "python object"}}
ElementEntries == {ScalarEntry(kind) : kind \in {"integer", "string"}}
PropKeys == {"a", "b"}

ListEntries == {[type |-> "list", item_type |-> e] : e \in ItemEntries} \cup {[type |-> "list"]}
TupleEntries == {[type |-> "tuple", element_types |-> s] : s \in SeqsUpTo(ElementEntries, MaxLen)}
PropsSeqs == {q \in SeqsUpTo([k : PropKeys, d : ElementEntries], MaxLen) : DistinctKeys(q)}
DictEntries == {[type |-> "dict", properties |-> q] : q \in PropsSeqs}

\* the entries of a shape: numbers, numbers written as strings, the
\* wildcards and None
ShapeTokens == {PyInt(1), PyInt(2), PyInt(5), PyStr("2"), PyStr("None"), PyStr("Any"), PyNone}
ShapeSpecs == {PyList(s) : s \in SeqsUpTo(ShapeTokens, MaxRank)} \cup {PyStr("Any")}
ArrayItemEntries ==
    {ScalarEntry(kind) : kind \in {"boolean", "integer", "float", "number", "string"}}
    \cup {[type |-> "dict", properties |-> <<[k |-> "a", d |-> [type |-> "integer"]]>>]}
NdarrayEntries ==
    {[type |-> "ndarray", shape |-> sh] : sh \in ShapeSpecs}
    \cup {[type |-> "ndarray", shape |-> sh, item_type |-> e] :
            sh \in {PyList(<<PyStr("None")>>), PyList(<<PyStr("None"), PyInt(2)>>), PyList(<<PyInt(1)>>)},
            e \in ArrayItemEntries}

NestedEntries ==
    {[type |-> "list", item_type |-> [type |-> "dict", properties |-> <<[k |-> "a", d |-> e]>>]] :
        e \in {[type |-> "integer"], [type |-> "list", item_type |-> [type |-> "integer"]]}}
    \cup {[type |-> "dict", properties |-> <<[k |-> "a", d |-> [type |-> "list", item_type |-> [type |-> "integer"]]]>>],
          [type |-> "tuple", element_types |-> <<[type |-> "list", item_type |-> [type |-> "integer"]], [type |-> "integer"]>>],
          [type |-> "list", item_type |-> [type |-> "list", item_type |-> [type |-> "integer"]]],
          [type |-> "tuple", element_types |-> <<PyStr("integer")>>]}

PublishedEntries ==
    ScalarEntries \cup OtherEntries \cup ListEntries \cup TupleEntries \cup DictEntries
    \cup NdarrayEntries \cup NestedEntries

-----------------------------------------------------------------------------
(* The calls of compose_argument_block *)

NoKwargs == [name \in {} |-> ""]

DataTypes == Kinds \cup {"nonsense"}
Descriptions == {"", "Test"}
ShapeArgs ==
    {PyNone, PyList(<<>>), PyList(<<PyNone>>), PyStr("Any"), PyList(<<PyInt(2), PyInt(2)>>),
     PyList(<<PyStr("None"), PyInt(2)>>), PyTuple(<<PyInt(3)>>)}
ItemTypeArgs == {PyNone, [type |-> "integer"], PyStr("float"), PyObject("int")}
PythonTypeArgs == {PyNone, PyStr("fk.Cls")}
PropertiesArgs == {PyNone, [props |-> <<>>], [props |-> <<[k |-> "a", d |-> [type |-> "integer"]]>>]}
ElementTypesArgs ==
    {PyNone, PyList(<<>>), PyList(<<[type |-> "integer"], [type |-> "string"]>>),
     PyList(<<PyStr("integer")>>)}
KwargsArgs == {NoKwargs, [vendor |-> "x"], [type |-> "string"]}

\* the arguments that a kind has no use for and that are given all the same
ForeignArgs(c) ==
    {name \in {"shape", "item_type", "python_type", "properties", "element_types"} :
        /\ ~ IsNone(c[name])
        /\ ~ \/ c.data_type = "ndarray" /\ name \in {"shape", "item_type"}
             \/ c.data_type = "list" /\ name = "item_type"
             \/ c.data_type = "tuple" /\ name = "element_types"
             \/ c.data_type = "dict" /\ name = "properties"
             \/ c.data_type = "python object" /\ name = "python_type"}

\* every call with the arguments of its kind, and the calls with one more
\* argument
ComposeCalls ==
    {c \in [data_type : DataTypes, description : Descriptions, shape : ShapeArgs,
            item_type : ItemTypeArgs, python_type : PythonTypeArgs,
            properties : PropertiesArgs, element_types : ElementTypesArgs,
            kwargs : KwargsArgs] :
        \/ ForeignArgs(c) = {}
        \/ Cardinality(ForeignArgs(c)) = 1 /\ c.kwargs = NoKwargs /\ c.description = "Test"}

Compose(c) ==
    compose_argument_block(c.data_type, c.description, c.shape, c.item_type, c.python_type,
                           c.properties, c.element_types, c.kwargs)

-----------------------------------------------------------------------------
(* filter_latest *)

\* the most recent date is the one seen first
IsNewer_first_seen(stored, pub_date) == stored = -1

\* latest_res.get(ident, ({}, -1))[1] < pub_date
IsNewer(stored, pub_date) == stored < pub_date

\* latest_res is kept as the sequence of its items [ident, res, pub_date]
\* in insertion order.  latest_res.get(ident, ({}, -1))[1]
StoredDate(latest_res, ident) ==
    IF \E j \in 1..Len(latest_res) : latest_res[j].ident = ident
    THEN latest_res[CHOOSE j \in 1..Len(latest_res) : latest_res[j].ident = ident].pub_date
    ELSE -1

\* latest_res[ident] = (res, pub_date): a key that is there keeps its place
StoreLatest(latest_res, ident, res, pub_date) ==
    IF \E j \in 1..Len(latest_res) : latest_res[j].ident = ident
    THEN [j \in 1..Len(latest_res) |->
            IF latest_res[j].ident = ident
            THEN [ident |-> ident, res |-> res, pub_date |-> pub_date]
            ELSE latest_res[j]]
    ELSE Append(latest_res, [ident |-> ident, res |-> res, pub_date |-> pub_date])

RECURSIVE FilterLoop(_, _, _)
\* the loop of filter_latest over results from position i on
FilterLoop(results, i, latest_res) ==
    IF i > Len(results) THEN latest_res
    ELSE LET res == results[i]
         IN IF ~ Has(res.dlhub, "shorthand_name")
            THEN FilterLoop(results, i + 1, latest_res)
            ELSE IF ~ Has(res.dlhub, "publication_date")
            THEN FilterLoop(results, i + 1, latest_res)
            ELSE LET ident == res.dlhub.shorthand_name
                     pub_date == IntOf(res.dlhub.publication_date).n
                 IN IF IsNewer(StoredDate(latest_res, ident), pub_date)
                    THEN FilterLoop(results, i + 1, StoreLatest(latest_res, ident, res, pub_date))
                    ELSE FilterLoop(results, i + 1, latest_res)

\* filter_latest(results): [r[0] for r in latest_res.values()]
filter_latest(results) ==
    LET latest_res == FilterLoop(results, 1, <<>>)
    IN [j \in 1..Len(latest_res) |-> latest_res[j].res]

\* the results of a search: the dlhub block of an entry has a
\* shorthand_name or not, and a publication_date (the time of publication
\* as a string of digits) or not
ShorthandNames == {"a", "b"}
PublicationDates == {PyStr("0"), PyStr("1"), PyStr("2")}
SearchEntries ==
    {[dlhub |-> [shorthand_name |-> n, publication_date |-> d]] : n \in ShorthandNames, d \in PublicationDates}
    \cup {[dlhub |-> [shorthand_name |-> n]] : n \in ShorthandNames}
    \cup {[dlhub |-> [publication_date |-> d]] : d \in PublicationDates}
    \cup {[dlhub |-> NoKwargs]}
SearchResults == SeqsUpTo(SearchEntries, MaxResults)

-----------------------------------------------------------------------------
(* DLHubFuture *)

\* self.pending_statuses
pending_statuses ==
    {"received", "waiting-for-ep", "waiting-for-nodes", "waiting-for-launch", "running"}

\* what client.get_result(task_id, verbose=True) does when it is called:
\* it raises an exception of class exc with the arguments args, or it
\* returns ((return_val, metadata), run_time) with metadata['success']
Response(kind, exc, args, success) == [kind |-> kind, exc |-> exc, args |-> args, success |-> success]
NoResponse == Response("none", "", <<>>, FALSE)
PendingResponses == {Response("raise", "Exception", <<st>>, FALSE) : st \in {"received", "running"}}
\* the task is over: its result with success or not, an exception of the
\* service (the first argument of a GlobusAPIError is the HTTP status), an
\* exception with another message, and one raised without arguments
FinalResponses ==
    {Response("return", "", <<>>, TRUE), Response("return", "", <<>>, FALSE),
     Response("raise", "GlobusAPIError", <<"500">>, FALSE),
     Response("raise", "Exception", <<"Task not found">>, FALSE),
     Response("raise", "AssertionError", <<>>, FALSE)}
Responses == PendingResponses \cup FinalResponses

\* the Future: its _state, what it holds (kind "result" or "exception"),
\* self.debug, and the number of set_result and set_exception calls that
\* stored something
NoFuture == [state |-> "PENDING", kind |-> "none", value |-> "", debug |-> FALSE, sets |-> 0]

\* the two threads: the statement each is at, the response its call of
\* running() got from get_result, whether the call stored an outcome, how
\* the call ended ("True", "False", "None" or the class of the exception
\* that left it), and the numbers of calls and of stop() calls that the
\* caller made
NoThread == [pc |-> "not started", got |-> NoResponse, stored |-> FALSE, ended |-> "", calls |-> 0, stops |-> 0]
NoThreads == [t \in {"poller", "caller"} |-> NoThread]

\* where a thread is between two calls
Between(t) == IF t = "poller" THEN "sleep" ELSE "idle"

\* Future.set_result / Future.set_exception on a future that is RUNNING
Stored(fut, kind, value) ==
    [fut EXCEPT !.state = "FINISHED", !.kind = kind, !.value = value, !.sets = @ + 1]

\* the outcomes of set_result / set_exception: on a finished future
\* Python 3.8 and later raise InvalidStateError and leave the future as it
\* is, earlier versions store the new outcome over the old one.  Each
\* outcome is the future after the call and the exception raised.
SetOutcomes(fut, kind, value) ==
    IF fut.state = "RUNNING"
    THEN {[fut |-> Stored(fut, kind, value), exc |-> "None"]}
    ELSE {[fut |-> fut, exc |-> "InvalidStateError"],
          [fut |-> Stored(fut, kind, value), exc |-> "None"]}

\* the call of running() in thread t is over: it returned or raised.  In
\* _ping_server a True goes back to sleep, a False breaks the loop, a
\* GlobusAPIError continues it and another exception ends the thread.
AfterRunning(t, th, ended) ==
    [th EXCEPT !.ended = ended, !.calls = IF t = "caller" THEN @ + 1 ELSE @,
               !.pc = IF t = "caller" THEN "idle"
                      ELSE IF ended = "True" \/ ended = "GlobusAPIError" THEN "sleep"
                      ELSE IF ended = "False" THEN "exited"
                      ELSE "died"]

\* if super().running(): ... return False
running_check(t) ==
    /\ phase = "future" /\ thread[t].pc = Between(t)
    /\ t = "caller" => thread[t].calls < MaxCalls
    /\ IF future.state = "RUNNING"
       THEN thread' = [thread EXCEPT ![t] = [@ EXCEPT !.pc = "get_result", !.got = NoResponse,
                                                      !.stored = FALSE, !.ended = ""]]
       ELSE thread' = [thread EXCEPT ![t] = AfterRunning(t, [@ EXCEPT !.got = NoResponse, !.stored = FALSE], "False")]
    /\ UNCHANGED <<phase, call, composed, metadata, run_input, result, repeat, client, search_results, latest, future, task>>

\* results = self.client.get_result(self.task_id, verbose=True)
running_get_result(t) ==
    /\ phase = "future" /\ thread[t].pc = "get_result"
    /\ thread' = [thread EXCEPT ![t] = [@ EXCEPT !.pc = "got", !.got = task]]
    /\ UNCHANGED <<phase, call, composed, metadata, run_input, result, repeat, client, search_results, latest, future, task>>

\* the except clause and the statements after the try of running()
running_finish(t) ==
    /\ phase = "future" /\ thread[t].pc = "got"
    /\ LET got == thread[t].got
           th == thread[t]
       IN IF got.kind = "raise" /\ got.args = <<>>
          THEN \* e.args[0] of an exception without arguments
               /\ thread' = [thread EXCEPT ![t] = AfterRunning(t, th, "IndexError")]
               /\ future' = future
          ELSE IF got.kind = "raise" /\ got.args[1] \in pending_statuses
          THEN /\ thread' = [thread EXCEPT ![t] = AfterRunning(t, th, "True")]
               /\ future' = future
          ELSE \E o \in SetOutcomes(future,
                                     IF got.kind = "return" /\ got.success THEN "result" ELSE "exception",
                                     IF got.kind = "raise" THEN got.exc
                                     ELSE IF ~ got.success THEN "metadata['exc']"
                                     ELSE IF future.debug THEN "(return_val, metadata)"
                                     ELSE "return_val") :
                  /\ future' = o.fut
                  /\ thread' = [thread EXCEPT ![t] =
                                   AfterRunning(t, [th EXCEPT !.stored = (o.exc = "None")],
                                                IF o.exc = "None" THEN "False" ELSE o.exc)]
    /\ UNCHANGED <<phase, call, composed, metadata, run_input, result, repeat, client, search_results, latest, task>>

-----------------------------------------------------------------------------
(* The state machine: a description is written or fetched, then an input  *)
(* is validated against it                                                 *)

NoCall ==
    [data_type |-> "", description |-> "", shape |-> PyNone, item_type |-> PyNone,
     python_type |-> PyNone, properties |-> PyNone, element_types |-> PyNone,
     kwargs |-> NoKwargs]
NoBlock == [exc |-> "", site |-> "not called", args |-> NoKwargs]
NoEntry == NoKwargs
NoResult == BuiltinRaised("", "not called", <<>>, FALSE)

\* a default argument that is one list shared by every call
\* (def validate(inputs, db_entry, path=[])): the call goes on with what the
\* call before left in it
DefaultPath_shared(left) == left

\* path = [] if path is None else path, for a call that gives no path: a
\* new empty list, whatever the list of the call before (left) holds
DefaultPath(left) == <<>>

\* no call of run yet: the statement run is at, its validate_input,
\* whether fx_cache has the name, the exception that left run, and the
\* numbers of metadata lookups, validate calls, tasks sent to the
\* execution service, futures and polling threads
NoRun ==
    [pc |-> "not called", validate_input |-> FALSE, cached |-> FALSE, error |-> "",
     lookups |-> 0, validations |-> 0, tasks |-> 0, futures |-> 0, threads |-> 0]

\* an exception of _validate_input is caught and run goes on
AfterValidateInput_swallowed(res) == "_fx_client.run"

\* the statement after self._validate_input(name, inputs): an exception
\* leaves run, a return goes on to _fx_client.run
AfterValidateInput(res) == IF res.exc # "None" THEN "raised" ELSE "_fx_client.run"

Init ==
    /\ phase = "idle"
    /\ call = NoCall
    /\ composed = NoBlock
    /\ metadata = NoEntry
    /\ run_input = PyNone
    /\ result = NoResult
    /\ repeat = NoResult
    /\ client = NoRun
    /\ search_results = <<>>
    /\ latest = <<>>
    /\ future = NoFuture
    /\ task = NoResponse
    /\ thread = NoThreads

\* a description of the input is written with compose_argument_block
ComposeArgumentBlock ==
    /\ phase = "idle"
    /\ \E c \in ComposeCalls :
          /\ call' = c
          /\ composed' = Compose(c)
          /\ IF composed'.exc = "None"
             THEN phase' = "described" /\ metadata' = composed'.args
             ELSE phase' = "rejected" /\ metadata' = metadata
    /\ UNCHANGED <<run_input, result, repeat, client, search_results, latest, future, task, thread>>

\* the description of the input of a published servable is looked up
FetchMetadata ==
    /\ phase = "idle"
    /\ \E entry \in PublishedEntries : metadata' = entry
    /\ phase' = "described"
    /\ UNCHANGED <<call, composed, run_input, result, repeat, client, search_results, latest, future, task, thread>>

\* validate(inputs, metadata)
Validate ==
    /\ phase = "described"
    /\ \E v \in Values :
          /\ run_input' = v
          /\ result' = validate(v, metadata, DefaultPath(result.path), FALSE)
    /\ phase' = "validated"
    /\ UNCHANGED <<call, composed, metadata, repeat, client, search_results, latest, future, task, thread>>

\* validate is called once more with the same input and metadata; the
\* call assigns to neither of them
ValidateAgain ==
    /\ phase = "validated"
    /\ repeat' = validate(run_input, metadata, DefaultPath(result.path), FALSE)
    /\ phase' = "revalidated"
    /\ UNCHANGED <<call, composed, metadata, run_input, result, client, search_results, latest, future, task, thread>>

\* DLHubClient.run(name, inputs, validate_input=...) is called for the
\* published servable; its name is in fx_cache or not
Run ==
    /\ phase = "described" /\ composed = NoBlock
    /\ \E v \in Values, validate_input \in BOOLEAN, cached \in BOOLEAN :
          /\ run_input' = v
          /\ client' = [NoRun EXCEPT !.pc = "fx_cache", !.validate_input = validate_input,
                                     !.cached = cached]
    /\ phase' = "run"
    /\ UNCHANGED <<call, composed, metadata, result, repeat, search_results, latest, future, task, thread>>

\* if name not in self.fx_cache: describe_servable and update the cache;
\* then the payload is built
RunLookup ==
    /\ phase = "run" /\ client.pc = "fx_cache"
    /\ client' = [client EXCEPT !.pc = "validate_input", !.cached = TRUE,
                                !.lookups = IF client.cached THEN @ ELSE @ + 1]
    /\ UNCHANGED <<phase, call, composed, metadata, run_input, result, repeat, search_results, latest, future, task, thread>>

\* if validate_input: self._validate_input(name, inputs), which searches
\* the servable's metadata and calls validate
RunValidateInput ==
    /\ phase = "run" /\ client.pc = "validate_input" /\ client.validate_input
    /\ result' = validate(run_input, metadata, DefaultPath(result.path), FALSE)
    /\ client' = [client EXCEPT !.pc = AfterValidateInput(result'),
                                !.validations = @ + 1,
                                !.lookups = @ + 1,
                                !.error = IF result'.exc = "None" THEN "" ELSE result'.exc]
    /\ UNCHANGED <<phase, call, composed, metadata, run_input, repeat, search_results, latest, future, task, thread>>

\* validate_input is false: the statement is skipped
RunSkipValidateInput ==
    /\ phase = "run" /\ client.pc = "validate_input" /\ ~ client.validate_input
    /\ client' = [client EXCEPT !.pc = "_fx_client.run"]
    /\ UNCHANGED <<phase, call, composed, metadata, run_input, result, repeat, search_results, latest, future, task, thread>>

\* task_id = self._fx_client.run(payload, ...)
RunSubmit ==
    /\ phase = "run" /\ client.pc = "_fx_client.run"
    /\ client' = [client EXCEPT !.pc = "DLHubFuture", !.tasks = @ + 1]
    /\ UNCHANGED <<phase, call, composed, metadata, run_input, result, repeat, search_results, latest, future, task, thread>>

\* future = DLHubFuture(self, task_id, async_wait, debug), whose
\* constructor starts the thread that polls the status
RunFuture ==
    /\ phase = "run" /\ client.pc = "DLHubFuture"
    /\ client' = [client EXCEPT !.pc = "return", !.futures = @ + 1, !.threads = @ + 1]
    /\ UNCHANGED <<phase, call, composed, metadata, run_input, result, repeat, search_results, latest, future, task, thread>>

\* a search returns results and filter_latest is applied to them
\* (get_servables, search_by_servable, ... with only_latest)
FilterLatest ==
    /\ phase = "idle"
    /\ \E results \in SearchResults :
          /\ search_results' = results
          /\ latest' = filter_latest(results)
    /\ phase' = "filtered"
    /\ UNCHANGED <<call, composed, metadata, run_input, result, repeat, client, future, task, thread>>

\* DLHubFuture(client, task_id, ping_interval, debug): the future is set
\* running and the thread that pings the server is started; the task is
\* pending or already over
NewFuture ==
    /\ phase = "idle"
    /\ \E debug \in BOOLEAN, response \in Responses :
          /\ future' = [NoFuture EXCEPT !.state = "RUNNING", !.debug = debug]
          /\ task' = response
    /\ thread' = [t \in {"poller", "caller"} |-> [NoThread EXCEPT !.pc = Between(t)]]
    /\ phase' = "future"
    /\ UNCHANGED <<call, composed, metadata, run_input, result, repeat, client, search_results, latest>>

\* the execution service: the pending task gets another status or is over
TaskAdvances ==
    /\ phase = "future" /\ task \in PendingResponses
    /\ \E response \in Responses \ {task} : task' = response
    /\ UNCHANGED <<phase, call, composed, metadata, run_input, result, repeat, client, search_results, latest, future, thread>>

\* _ping_server: after sleep(self.ping_interval), self.running()
PingCheck == running_check("poller")
PingGetResult == running_get_result("poller")
PingFinish == running_finish("poller")

\* the thread of the caller calls future.running()
CallerCheck == running_check("caller")
CallerGetResult == running_get_result("caller")
CallerFinish == running_finish("caller")

\* the thread of the caller calls future.stop():
\* self.set_exception(Exception('Cancelled by user'))
Stop ==
    /\ phase = "future" /\ thread["caller"].pc = "idle" /\ thread["caller"].calls < MaxCalls
    /\ \E o \in SetOutcomes(future, "exception", "Cancelled by user") :
          /\ future' = o.fut
          /\ thread' = [thread EXCEPT !["caller"] =
                           [@ EXCEPT !.got = NoResponse, !.stored = (o.exc = "None"),
                                     !.ended = IF o.exc = "None" THEN "None" ELSE o.exc,
                                     !.calls = @ + 1, !.stops = @ + 1]]
    /\ UNCHANGED <<phase, call, composed, metadata, run_input, result, repeat, client, search_results, latest, task>>

Next ==
    \/ NewFuture \/ TaskAdvances \/ PingCheck \/ PingGetResult \/ PingFinish
    \/ CallerCheck \/ CallerGetResult \/ CallerFinish \/ Stop
    \/ FilterLatest
    \/ ComposeArgumentBlock \/ FetchMetadata \/ Validate \/ ValidateAgain
    \/ Run \/ RunLookup \/ RunValidateInput \/ RunSkipValidateInput \/ RunSubmit \/ RunFuture

Spec == Init /\ [][Next]_vars

\* the thread of _ping_server is a running daemon thread whose sleep ends:
\* each of its steps is taken when it stays possible
LiveSpec == Spec /\ WF_vars(PingCheck) /\ WF_vars(PingGetResult) /\ WF_vars(PingFinish)

-----------------------------------------------------------------------------
(* What the metadata means, independently of the validator *)

\* the classes whose instances a scalar kind stands for
NativeClasses(kind) ==
    IF kind = "boolean" THEN {"bool"}
    ELSE IF kind = "integer" THEN {"int", "bool"}
    ELSE IF kind = "float" THEN {"int", "bool", "float"}
    ELSE IF kind = "number" THEN {"int", "bool", "float", "complex"}
    ELSE IF kind = "string" THEN {"str"}
    ELSE IF kind = "file" THEN {"TextIOWrapper", "Path", "str"}
    ELSE IF kind = "python object" THEN {v.t : v \in Values}
    ELSE {kind}

\* the value passes the native type check of the kind
SatisfiesKind(v, kind) == v.t \in NativeClasses(kind)

\* an entry of a shape that stands for a size: the size
IsSizeToken(tok) == tok.t = "int" \/ (tok.t = "str" /\ tok.s \in {"0", "1", "2", "3", "4", "5"})
TokenSize(tok) ==
    IF tok.t = "int" THEN tok.n
    ELSE IF tok.s = "0" THEN 0 ELSE IF tok.s = "1" THEN 1 ELSE IF tok.s = "2" THEN 2
    ELSE IF tok.s = "3" THEN 3 ELSE IF tok.s = "4" THEN 4 ELSE 5
IsToken(tok, s) == tok.t = "str" /\ tok.s = s

\* the shape of an array fits a list of sizes and wildcards, where the
\* tokens in wild are the wildcards
ShapeFits(arrShape, toks, wild) ==
    /\ Len(arrShape) = Len(toks)
    /\ \A j \in 1..Len(toks) :
          \/ \E w \in wild : IsToken(toks[j], w)
          \/ IsSizeToken(toks[j]) /\ TokenSize(toks[j]) = arrShape[j]

\* the kinds an array of a dtype kind holds
DtypeHolds(kind, itemKind) ==
    \/ kind = "i" /\ itemKind = "integer"
    \/ kind = "f" /\ itemKind \in {"float", "number"}
    \/ kind = "b" /\ itemKind = "boolean"
    \/ kind = "U" /\ itemKind = "string"

RECURSIVE WellFormed(_)
\* the entry is a descriptor of the metadata: its kind is one of the kinds
\* and it carries the field of its kind
WellFormed(d) ==
    /\ IsDictEntry(d)
    /\ Has(d, "type")
    /\ d.type \in Kinds
    /\ d.type = "list" => Has(d, "item_type") /\ WellFormed(d.item_type)
    /\ d.type = "tuple" =>
          /\ Has(d, "element_types")
          /\ \A j \in 1..Len(d.element_types) : WellFormed(d.element_types[j])
    /\ d.type = "dict" =>
          /\ Has(d, "properties")
          /\ \A j \in 1..Len(d.properties) : WellFormed(d.properties[j].d)
    /\ d.type = "python object" => Has(d, "python_type")
    /\ d.type = "ndarray" =>
          /\ Has(d, "shape")
          /\ d.shape.t = "list"
          /\ \A j \in 1..Len(d.shape.items) :
                \/ IsSizeToken(d.shape.items[j])
                \/ IsToken(d.shape.items[j], "None")
                \/ IsToken(d.shape.items[j], "Any")
          /\ Has(d, "item_type") => WellFormed(d.item_type)

RECURSIVE Conforms(_, _)
\* the value is one that the well-formed descriptor describes
Conforms(v, d) ==
    IF d.type \in ScalarKinds THEN SatisfiesKind(v, d.type)
    ELSE IF d.type = "list"
    THEN v.t = "list" /\ \A j \in 1..Len(v.items) : Conforms(v.items[j], d.item_type)
    ELSE IF d.type = "tuple"
    THEN /\ v.t = "tuple"
         /\ Len(v.items) = Len(d.element_types)
         /\ \A j \in 1..Len(v.items) : Conforms(v.items[j], d.element_types[j])
    ELSE IF d.type = "dict"
    THEN /\ v.t = "dict"
         /\ \/ d.properties = <<>>
            \/ /\ DictKeys(v) = {d.properties[j].k : j \in 1..Len(d.properties)}
               /\ \A j \in 1..Len(d.properties) :
                     Conforms(DictGet(v, d.properties[j].k), d.properties[j].d)
    ELSE /\ v.t = "ndarray"
         /\ ShapeFits(v.shape, d.shape.items, {"None", "Any"})
         /\ Has(d, "item_type") =>
               IF v.kind = "O"
               THEN \A j \in 1..Len(v.elems) : Conforms(v.elems[j], d.item_type)
               ELSE DtypeHolds(v.kind, d.item_type.type)

Validated == phase = "validated"

-----------------------------------------------------------------------------
(* Properties *)

\* C1: a value that conforms to a well-formed descriptor of any kind,
\* nested descriptors included, is accepted: validate returns None.
C1_WellFormedAcceptance ==
    (Validated /\ WellFormed(metadata) /\ Conforms(run_input, metadata))
        => result.exc = "None"

\* C2: a value that does not pass the native type check of the kind of the
\* descriptor is refused with a TypeError whose message names the expected
\* and the received type and the location; no other exception escapes.
C2_TypeMismatch ==
    (Validated /\ WellFormed(metadata) /\ ~ SatisfiesKind(run_input, metadata.type))
        => /\ result.exc = "TypeError"
           /\ result.site = "TypeMismatch"
           /\ result.expected # <<>>
           /\ result.given = (IF run_input.t = "NoneType" THEN "None" ELSE run_input.t)
           /\ result.loc = <<>>

\* C3: a descriptor whose type name is not one of the kinds is refused with
\* a ValueError for every value.
C3_UnknownKind ==
    (Validated /\ IsDictEntry(metadata) /\ Has(metadata, "type") /\ metadata.type \notin Kinds)
        => result.exc = "ValueError" /\ result.site = "UnknownKind"

PropKeysOf(d) == {d.properties[j].k : j \in 1..Len(d.properties)}

\* C4: a dict whose keys are not exactly the keys of (non-empty) properties
\* is refused with a ValueError: MissingKey naming a declared key that is
\* absent, or UnexpectedKey naming a key that is not declared.
C4_DictClosedKeySet ==
    (/\ Validated /\ WellFormed(metadata) /\ metadata.type = "dict"
     /\ metadata.properties # <<>>
     /\ run_input.t = "dict" /\ DictKeys(run_input) # PropKeysOf(metadata))
        => /\ result.exc = "ValueError"
           /\ \/ result.site = "MissingKey" /\ result.key \in PropKeysOf(metadata) \ DictKeys(run_input)
              \/ result.site = "UnexpectedKey" /\ result.key \in DictKeys(run_input) \ PropKeysOf(metadata)

IsTupleCall ==
    /\ Validated /\ IsDictEntry(metadata) /\ Has(metadata, "type") /\ metadata.type = "tuple"
    /\ Has(metadata, "element_types") /\ run_input.t = "tuple"

\* the positions of the tuple that are refused on their own
RefusedPositions ==
    {j \in 1..Len(run_input.items) :
        validate(run_input.items[j], metadata.element_types[j], <<>>, FALSE).exc # "None"}

\* C5: a tuple whose length is not the number of element types is refused
\* with a ValueError that names both lengths, whatever its elements are; a
\* tuple of the right length is accepted iff each element is accepted
\* against the element type of its position, and the error of a refused
\* tuple is the one of its first refused position.
C5_TupleArity ==
    IsTupleCall =>
        IF Len(run_input.items) # Len(metadata.element_types)
        THEN /\ result.exc = "ValueError"
             /\ result.site = "ArityMismatch"
             /\ result.lens = <<Len(metadata.element_types), Len(run_input.items)>>
        ELSE /\ result.exc = "None" <=> RefusedPositions = {}
             /\ RefusedPositions # {} =>
                   LET first == CHOOSE j \in RefusedPositions : \A h \in RefusedPositions : j <= h
                       alone == validate(run_input.items[first], metadata.element_types[first], <<>>, FALSE)
                   IN /\ result.exc = alone.exc
                      /\ result.site = alone.site
                      /\ result.path[1] = [c |-> "tuple", i |-> first - 1, k |-> ""]

\* C5 witness: a tuple that is too long and whose first element is not of
\* its element type is refused for its length.
C5_Witness ==
    /\ IsTupleCall
    /\ Len(run_input.items) = 2 /\ Len(metadata.element_types) = 1
    /\ validate(run_input.items[1], metadata.element_types[1], <<>>, FALSE).exc = "TypeError"
    /\ result.site = "ArityMismatch"

IsNdarrayCall ==
    /\ Validated /\ IsDictEntry(metadata) /\ Has(metadata, "type") /\ metadata.type = "ndarray"
    /\ Has(metadata, "shape") /\ run_input.t = "ndarray"

\* the shape is a list of sizes and of the tokens in wild
ShapeOver(shape, wild) ==
    /\ shape.t = "list"
    /\ \A j \in 1..Len(shape.items) :
          IsSizeToken(shape.items[j]) \/ \E w \in wild : IsToken(shape.items[j], w)

\* C6: against a shape of sizes and "None" wildcards an array is refused
\* with a ValueError for its shape iff its rank is not the length of the
\* shape or its size on some axis is not the size the shape gives; the
\* error names the shape of the array.
C6_NdarrayShape ==
    (IsNdarrayCall /\ ShapeOver(metadata.shape, {"None"})) =>
        /\ (result.exc = "ValueError" /\ result.site = "ShapeMismatch")
              <=> ~ ShapeFits(run_input.shape, metadata.shape.items, {"None"})
        /\ result.site = "ShapeMismatch" => result.lens = run_input.shape
        /\ (ShapeFits(run_input.shape, metadata.shape.items, {"None"}) /\ ~ Has(metadata, "item_type"))
              => result.exc = "None"

\* C6 witness: the shape ["None", 2] refuses an array of shape (5, 3).
C6_Witness ==
    /\ IsNdarrayCall
    /\ metadata.shape = PyList(<<PyStr("None"), PyInt(2)>>)
    /\ run_input.shape = <<5, 3>>
    /\ result.exc = "ValueError" /\ result.site = "ShapeMismatch"

\* C7: "Any" is a wildcard like "None": a shape entry "Any" fits every size
\* of its axis, and a descriptor whose shape is "Any" accepts every array.
C7_AnyWildcard ==
    (IsNdarrayCall /\ ~ Has(metadata, "item_type")) =>
        /\ metadata.shape = PyStr("Any") => result.exc = "None"
        /\ ShapeOver(metadata.shape, {"None", "Any"}) =>
              (result.exc = "None"
                  <=> ShapeFits(run_input.shape, metadata.shape.items, {"None", "Any"}))

\* C8: an array (of rank 1 or more) whose shape fits and whose dtype is
\* the one item_type names (integer; float for float and number; boolean;
\* string) is accepted.
C8_NdarrayItemType ==
    (/\ IsNdarrayCall /\ ShapeOver(metadata.shape, {"None"})
     /\ Len(run_input.shape) >= 1
     /\ ShapeFits(run_input.shape, metadata.shape.items, {"None"})
     /\ Has(metadata, "item_type") /\ IsDictEntry(metadata.item_type)
     /\ Has(metadata.item_type, "type")
     /\ DtypeHolds(run_input.kind, metadata.item_type.type))
        => result.exc = "None"

\* C9: every value is accepted against a descriptor of kind python object,
\* whatever its python_type.
C9_PythonObject ==
    (/\ Validated /\ IsDictEntry(metadata) /\ Has(metadata, "type")
     /\ metadata.type = "python object" /\ Has(metadata, "python_type"))
        => result.exc = "None"

\* the block carries the field its kind requires
RequiredSupplied(d) ==
    /\ d.type \in Kinds
    /\ d.type = "list" => Has(d, "item_type")
    /\ d.type = "tuple" => Has(d, "element_types")
    /\ d.type = "dict" => Has(d, "properties")
    /\ d.type = "ndarray" => Has(d, "shape")
    /\ d.type = "python object" => Has(d, "python_type")

\* C10: for every block that compose_argument_block returns with the field
\* of its kind, some value is accepted by validate against the block.
C10_RoundTrip ==
    (phase = "described" /\ composed.exc = "None" /\ RequiredSupplied(metadata))
        => \E v \in Values : validate(v, metadata, <<>>, FALSE).exc = "None"

RECURSIVE ContainersOnly(_)
\* the well-formed descriptor has no ndarray in it
ContainersOnly(d) ==
    /\ d.type # "ndarray"
    /\ d.type = "list" => ContainersOnly(d.item_type)
    /\ d.type = "tuple" => \A j \in 1..Len(d.element_types) : ContainersOnly(d.element_types[j])
    /\ d.type = "dict" => \A j \in 1..Len(d.properties) : ContainersOnly(d.properties[j].d)

Frame(i, k) == [i |-> i, k |-> k]

RECURSIVE OffendingPath(_, _)
\* the index or key of every container around the first value that does
\* not conform, from the root down
OffendingPath(v, d) ==
    IF d.type = "list" /\ v.t = "list"
    THEN LET bad == {j \in 1..Len(v.items) : ~ Conforms(v.items[j], d.item_type)}
             j == CHOOSE j \in bad : \A h \in bad : j <= h
         IN <<Frame(j - 1, "")>> \o OffendingPath(v.items[j], d.item_type)
    ELSE IF d.type = "tuple" /\ v.t = "tuple" /\ Len(v.items) = Len(d.element_types)
    THEN LET bad == {j \in 1..Len(v.items) : ~ Conforms(v.items[j], d.element_types[j])}
             j == CHOOSE j \in bad : \A h \in bad : j <= h
         IN <<Frame(j - 1, "")>> \o OffendingPath(v.items[j], d.element_types[j])
    ELSE IF d.type = "dict" /\ v.t = "dict" /\ d.properties # <<>> /\ DictKeys(v) = PropKeysOf(d)
    THEN LET bad == {j \in 1..Len(d.properties) :
                        ~ Conforms(DictGet(v, d.properties[j].k), d.properties[j].d)}
             j == CHOOSE j \in bad : \A h \in bad : j <= h
         IN <<Frame(-1, d.properties[j].k)>>
                \o OffendingPath(DictGet(v, d.properties[j].k), d.properties[j].d)
    ELSE <<>>

IsPrefix(p, q) == Len(p) <= Len(q) /\ \A j \in 1..Len(p) : p[j] = q[j]

\* C11: when a value nested in lists, tuples and dicts is refused, the
\* location of the error names the index or key of every container around
\* the offending value, from the root down.
C11_NestedLocation ==
    (/\ Validated /\ WellFormed(metadata) /\ ContainersOnly(metadata)
     /\ ~ Conforms(run_input, metadata))
        => /\ result.exc # "None"
           /\ IsPrefix(OffendingPath(run_input, metadata), result.loc)

\* the class and the message of an outcome
Message(r) == <<r.exc, r.site, r.expected, r.given, r.loc, r.key, r.lens>>

\* a step that is a call of validate leaves the descriptor as it was, and
\* a repeated call leaves the value as it was
CallKeepsArguments ==
    (phase \in {"described", "validated"}) =>
        (metadata' = metadata /\ (phase = "validated" => run_input' = run_input))

Built == composed.site # "not called"

\* the field that a kind requires
RequiredField(kind) ==
    IF kind = "list" THEN "item_type"
    ELSE IF kind = "tuple" THEN "element_types"
    ELSE IF kind = "dict" THEN "properties"
    ELSE IF kind = "ndarray" THEN "shape"
    ELSE "python_type"

\* C13: compose_argument_block raises a ValueError for a list, a tuple, a
\* python object or a dict whose field is not given, and when the field is
\* given it returns a block that stores it.
C13_MissingField ==
    (Built /\ call.data_type \in {"list", "tuple", "python object", "dict"})
        => IF IsNone(call[RequiredField(call.data_type)])
           THEN composed.exc = "ValueError"
           ELSE composed.exc = "None" /\ Has(composed.args, RequiredField(call.data_type))

\* the shape is a list or a tuple
IsSequence(shape) == shape.t \in {"list", "tuple"}

\* C14: for an ndarray, compose_argument_block raises a ValueError when the
\* shape is not given or is an empty sequence; otherwise the block stores
\* the entries of the shape in their order.
C14_NdarrayShapeRequired ==
    (Built /\ call.data_type = "ndarray")
        => /\ (IsNone(call.shape) \/ (IsSequence(call.shape) /\ call.shape.items = <<>>))
                => composed.exc = "ValueError"
           /\ (IsSequence(call.shape) /\ call.shape.items # <<>>)
                => /\ composed.exc = "None"
                   /\ composed.args.shape = PyList(call.shape.items)

\* C15: every block that compose_argument_block returns with the kind
\* list, tuple, dict, ndarray or python object has the field of its kind.
C15_RequiredFieldPresent ==
    (Built /\ composed.exc = "None" /\ composed.args.type \in ContainerKinds \cup {"python object"})
        => Has(composed.args, RequiredField(composed.args.type))

\* C16: compose_argument_block raises for a kind outside the fixed set and
\* returns no block of that kind.
C16_UnknownKindRejected ==
    (Built /\ call.data_type \notin Kinds) => composed.exc # "None"

\* C17 as stated: the block that is returned has the kind and the
\* description of the call, and every extra keyword with its value.
C17_ResultFields ==
    (Built /\ composed.exc = "None")
        => /\ composed.args.type = call.data_type
           /\ composed.args.description = call.description
           /\ \A name \in DOMAIN call.kwargs : composed.args[name] = call.kwargs[name]

\* C17, amended: the block that is returned has the description of the
\* call and every extra keyword with its value, and has the kind of the
\* call unless an extra keyword is named type.
C17_ResultFieldsUnlessOverridden ==
    (Built /\ composed.exc = "None")
        => /\ "type" \notin DOMAIN call.kwargs => composed.args.type = call.data_type
           /\ composed.args.description = call.description
           /\ \A name \in DOMAIN call.kwargs : composed.args[name] = call.kwargs[name]

\* C17 witness: a block was returned for a list with the extra keyword
\* type, and it has the keyword's value as its kind.
C17_Witness ==
    /\ Built /\ composed.exc = "None" /\ call.data_type = "list"
    /\ "type" \in DOMAIN call.kwargs
    /\ composed.args.type = "string" /\ Has(composed.args, "item_type")

\* the descriptor is a dict with an empty properties mapping
EmptyProperties(d) == d.type = "dict" /\ Has(d, "properties") /\ d.properties = <<>>

\* C18: against a dict descriptor with empty properties, validate returns
\* None for every dict whatever its keys and values, and refuses a value
\* that is not a dict with a TypeMismatch.
C18_EmptyPropertiesEscape ==
    (Validated /\ EmptyProperties(metadata))
        => IF run_input.t = "dict"
           THEN result.exc = "None"
           ELSE result.exc = "TypeError" /\ result.site = "TypeMismatch"

\* C18 witness: a dict with two keys was accepted against empty properties.
C18_Witness ==
    /\ Validated /\ EmptyProperties(metadata)
    /\ run_input.t = "dict" /\ Len(run_input.pairs) = 2
    /\ result.exc = "None"

RECURSIVE HasBoolAsInt(_, _)
\* in the conforming value, a boolean stands where the descriptor says
\* integer, at the top or inside lists, tuples and dicts
HasBoolAsInt(v, d) ==
    IF d.type = "integer" THEN v.t = "bool"
    ELSE IF d.type = "list"
    THEN \E j \in 1..Len(v.items) : HasBoolAsInt(v.items[j], d.item_type)
    ELSE IF d.type = "tuple"
    THEN \E j \in 1..Len(v.items) : HasBoolAsInt(v.items[j], d.element_types[j])
    ELSE IF d.type = "dict"
    THEN \E j \in 1..Len(d.properties) :
            HasBoolAsInt(DictGet(v, d.properties[j].k), d.properties[j].d)
    ELSE FALSE

\* C19: a value with a boolean where the descriptor says integer, at the
\* top or inside a list, a tuple or a dict, is accepted with a
\* ValidationWarning; an integer against a boolean descriptor is refused
\* with a TypeMismatch.
C19_BoolAsIntegerWarns ==
    /\ (/\ Validated /\ WellFormed(metadata) /\ ContainersOnly(metadata)
        /\ Conforms(run_input, metadata) /\ HasBoolAsInt(run_input, metadata))
            => result.exc = "None" /\ result.warned
    /\ (Validated /\ IsDictEntry(metadata) /\ Has(metadata, "type")
        /\ metadata.type = "boolean" /\ run_input.t = "int")
            => result.exc = "TypeError" /\ result.site = "TypeMismatch"

\* C19 witness: a dict whose value under an integer key is a boolean was
\* accepted with the warning.
C19_Witness ==
    /\ Validated /\ WellFormed(metadata) /\ metadata.type = "dict"
    /\ Conforms(run_input, metadata) /\ HasBoolAsInt(run_input, metadata)
    /\ result.exc = "None" /\ result.warned

\* C20: in run with validate_input, validate has returned before the task
\* is sent; when validate raises, the error leaves run, no task is sent and
\* no future and no polling thread is created; without validate_input,
\* validate is never called.
C20_PreflightOrdering ==
    phase = "run" =>
        /\ (client.validate_input /\ client.tasks > 0)
              => client.validations = 1 /\ result.exc = "None"
        /\ (client.validate_input /\ client.validations = 1 /\ result.exc # "None")
              => /\ client.pc = "raised" /\ client.error = result.exc
                 /\ client.tasks = 0 /\ client.futures = 0 /\ client.threads = 0
        /\ ~ client.validate_input => client.validations = 0 /\ result = NoResult

\* C20 witness: run with validate_input ended with the TypeError of
\* validate and sent nothing.
C20_Witness ==
    /\ phase = "run" /\ client.validate_input /\ client.pc = "raised"
    /\ client.error = "TypeError" /\ client.tasks = 0

\* C22: for a dict descriptor with non-empty properties and a dict that
\* has no undeclared key but lacks a declared one, validate raises the
\* MissingKey error for a lacking key, whatever the values under the keys
\* that are present.
C22_KeySetBeforeValues ==
    (/\ Validated /\ WellFormed(metadata) /\ metadata.type = "dict"
     /\ metadata.properties # <<>> /\ run_input.t = "dict"
     /\ DictKeys(run_input) \subseteq PropKeysOf(metadata)
     /\ DictKeys(run_input) # PropKeysOf(metadata))
        => /\ result.exc = "ValueError" /\ result.site = "MissingKey"
           /\ result.key \in PropKeysOf(metadata) \ DictKeys(run_input)

\* the indices (from 0) of the elements of the list that validate refuses
\* against the item_type
FailingIndices(li, d) ==
    {i \in 0..(Len(li.items) - 1) : validate(li.items[i + 1], d.item_type, <<>>, FALSE).exc # "None"}

\* C23: for a list descriptor, validate fails iff some element fails
\* against item_type, and the location of the error then begins with the
\* lowest index whose element fails.
C23_ListFirstViolation ==
    (Validated /\ WellFormed(metadata) /\ metadata.type = "list" /\ run_input.t = "list")
        => LET bad == FailingIndices(run_input, metadata)
           IN /\ (result.exc # "None") <=> (bad # {})
              /\ bad # {} =>
                    /\ result.loc # <<>>
                    /\ result.loc[1] = Frame(CHOOSE i \in bad : \A h \in bad : i <= h, "")

\* a path that a caller hands to validate: the value is element 4 of a list
EntryPath == <<[c |-> "list", i |-> 4, k |-> ""]>>

RECURSIVE NamesContainers(_, _, _)
\* the frames of the path name, from the root down, a list, tuple or dict
\* of the value v and an element or key of it, one frame for every
\* container around the value that was being checked
NamesContainers(v, d, path) ==
    IF path = <<>> THEN TRUE
    ELSE LET f == Head(path)
             rest == Tail(path)
         IN /\ IsDictEntry(d) /\ Has(d, "type") /\ f.c = d.type /\ f.c = v.t
            /\ IF f.c \in {"list", "tuple"}
               THEN /\ f.i \in 0..(Len(v.items) - 1) /\ f.k = ""
                    /\ IF f.c = "list"
                       THEN IF Has(d, "item_type")
                            THEN NamesContainers(v.items[f.i + 1], d.item_type, rest)
                            ELSE rest = <<>>
                       ELSE /\ f.i < Len(d.element_types)
                            /\ NamesContainers(v.items[f.i + 1], d.element_types[f.i + 1], rest)
               ELSE /\ f.c = "dict" /\ f.i = -1
                    /\ IF f.k \in DictKeys(v) \cap PropKeysOf(d)
                       THEN NamesContainers(DictGet(v, f.k),
                                            d.properties[CHOOSE j \in 1..Len(d.properties) : d.properties[j].k = f.k].d,
                                            rest)
                       ELSE rest = <<>>

SameSample(a, b) ==
    /\ a.shape = b.shape /\ a.kind = b.kind
    /\ (a.kind = "O" /\ a.elems # <<>> /\ b.elems # <<>>) => a.elems[1] = b.elems[1]

\* the descriptor without its item_type
WithoutItemType(d) == [f \in DOMAIN d \ {"item_type"} |-> d[f]]

IsNdarrayItemCall ==
    /\ Validated /\ run_input.t = "ndarray"
    /\ IsDictEntry(metadata) /\ Has(metadata, "type") /\ metadata.type = "ndarray"
    /\ Has(metadata, "item_type")

IsDated(res) == Has(res.dlhub, "shorthand_name") /\ Has(res.dlhub, "publication_date")

\* the positions of the list at which a dated result of the name stands
PositionsOf(list, n) ==
    {j \in 1..Len(list) : IsDated(list[j]) /\ list[j].dlhub.shorthand_name = n}

\* the publication date of a dated result, as a number
DateOf(res) == IntOf(res.dlhub.publication_date).n

\* C21: filter_latest returns exactly one result for every shorthand_name
\* of the results that carry a shorthand_name and a publication_date; it is
\* one of the results given, with the greatest publication_date of its
\* name; results that lack either field are not returned.
C21_FilterLatest ==
    phase = "filtered" =>
        /\ \A j \in 1..Len(latest) :
              IsDated(latest[j]) /\ \E h \in 1..Len(search_results) : search_results[h] = latest[j]
        /\ \A n \in ShorthandNames :
              IF PositionsOf(search_results, n) = {}
              THEN PositionsOf(latest, n) = {}
              ELSE /\ Cardinality(PositionsOf(latest, n)) = 1
                   /\ \A j \in PositionsOf(latest, n), h \in PositionsOf(search_results, n) :
                         DateOf(latest[j]) >= DateOf(search_results[h])

\* C21 witness: of three results, an older and a newer one of one name and
\* one without a date, only the newer one was returned.
C21_Witness ==
    /\ phase = "filtered" /\ Len(search_results) = 3 /\ Len(latest) = 1
    /\ PositionsOf(search_results, "a") = {1, 2}
    /\ DateOf(search_results[1]) < DateOf(search_results[2])
    /\ ~ IsDated(search_results[3])
    /\ latest[1] = search_results[2]

Threads == {"poller", "caller"}

\* the call of running() in thread t that ended last had a response from
\* get_result
CalledGetResult(t) == thread[t].ended # "" /\ thread[t].got # NoResponse

\* the response is an exception whose first argument is a pending status
IsPendingResponse(r) == r.kind = "raise" /\ r.args # <<>> /\ r.args[1] \in pending_statuses

\* C24: a call of running() in which get_result raises a pending status
\* returns True and stores nothing in the future; one in which get_result
\* raises another exception returns False with the future finished; and no
\* exception leaves running() when get_result raises.
C24_RunningStatusHandling ==
    \A t \in Threads :
        (CalledGetResult(t) /\ thread[t].got.kind = "raise")
            => IF IsPendingResponse(thread[t].got)
               THEN thread[t].ended = "True" /\ ~ thread[t].stored
               ELSE /\ thread[t].ended = "False"
                    /\ future.state = "FINISHED" /\ future.kind = "exception"

\* the step in which the polling thread deals with a GlobusAPIError of its
\* status check leaves the future as it is and sends the thread back to
\* sleep
PingSurvivesGlobusAPIError ==
    (/\ thread["poller"].pc = "got" /\ thread["poller"].got.exc = "GlobusAPIError"
     /\ thread'["poller"].pc # "got")
        => thread'["poller"].pc = "sleep" /\ future' = future

\* C25: when a status check of the polling thread fails with a
\* GlobusAPIError the future is still running afterwards and the thread
\* polls again.
C25_KeepsPinging == [][PingSurvivesGlobusAPIError]_vars

\* what the future holds when the task is over with the response r
ExpectedValue(r, debug) ==
    IF r.kind = "raise" THEN r.exc
    ELSE IF ~ r.success THEN "metadata['exc']"
    ELSE IF debug THEN "(return_val, metadata)"
    ELSE "return_val"

TaskOver == phase = "future" /\ task \in FinalResponses

\* the future is done with the outcome of the task (or was stopped by the
\* caller) and the polling thread has left its loop
Completed ==
    /\ future.state = "FINISHED"
    /\ \/ /\ future.kind = (IF task.kind = "return" /\ task.success THEN "result" ELSE "exception")
          /\ future.value = ExpectedValue(task, future.debug)
       \/ future.kind = "exception" /\ future.value = "Cancelled by user"
    /\ thread["poller"].pc \in {"exited", "died"}

\* C26: once the task is no longer pending, the future eventually is done,
\* with return_val (with (return_val, metadata) under debug) on success and
\* with the exception otherwise, and the polling thread leaves its loop.
C26_Completion == TaskOver ~> Completed

\* C27: as long as the caller only calls running(), at most one
\* set_result or set_exception is performed on the future under every
\* interleaving with the polling thread, and none is attempted on a
\* finished future.
C27_SetAtMostOnce ==
    (phase = "future" /\ thread["caller"].stops = 0)
        => /\ future.sets <= 1
           /\ \A t \in Threads : thread[t].ended # "InvalidStateError"

\* the last call of the caller was stop() and it raised
StopRaised ==
    /\ thread["caller"].stops > 0 /\ thread["caller"].got = NoResponse
    /\ thread["caller"].ended = "InvalidStateError"

\* once stop() was called, a step keeps the outcome of the future, a call
\* of running() does not end with an InvalidStateError, and the polling
\* thread that polls leaves its loop
QuietAfterStop ==
    thread["caller"].stops > 0 =>
        /\ future'.kind = future.kind /\ future'.value = future.value
        /\ \A t \in Threads :
              (thread[t].pc = "got" /\ thread'[t].pc # "got") => thread'[t].ended # "InvalidStateError"
        /\ (thread["poller"].pc = "sleep" /\ thread'["poller"].pc # "sleep")
              => thread'["poller"].pc = "exited"

\* C28: stop() does not raise whenever it is called, the future is done
\* after it, the polling thread exits at its next poll, and a result of
\* the task that arrives later neither replaces the outcome nor fails to
\* be stored.
C28_Stop ==
    /\ [](~ StopRaised /\ (thread["caller"].stops > 0 => future.state = "FINISHED"))
    /\ [][QuietAfterStop]_vars

=============================================================================
